---- MODULE Spec2Model ----
(***************************************************************************)
(* Model of the "Around" post service (src/service/main.go): the write     *)
(* path handlePost (spam filter, saveToGCS, saveToES, saveToBigTable) and  *)
(* the read path handleSearch (readFromES), with the three backend stores  *)
(* as state.  Every backend call may fail; concurrent requests interleave  *)
(* at the granularity of the backend calls.                                *)
(***************************************************************************)
EXTENDS Integers, Sequences, FiniteSets, TLC

\* ---------------------------------------------------------------- bounds

\* Number of handlePost requests served (all may be in flight at once).
MaxReq == 2

\* Number of posts a non-empty deployment already holds when the process
\* starts (written by earlier runs of the same service).
PrePosts == 10

\* Number of times a caller repeats the index write of a post.
MaxRetry == 1

\* ------------------------------------------------------------- constants

\* const DISTANCE = "200km": a string, here the token sequence "200" "km".
DISTANCE == <<"200", "km">>

POST_INDEX == "post"

\* The index of the user accounts.
USER_INDEX == "user"

BUCKET_NAME == "zhida-post-around-image"

\* client.Search() is built without Size(n) and without From(n): the
\* Elasticsearch search API then returns at most its default of 10 hits.
ES_DEFAULT_SIZE == 10

\* Kilometres per degree used by the geo-distance predicate of the model.
KM_PER_DEGREE == 111

\* ------------------------------------------------------------ input sets

Reqs == 1..MaxReq

Users == {"alice"}

\* A message is a sequence of words.
Messages == {<<"hello">>, <<"buy", "pills">>}

\* Form / query values of lat and lon: decimal strings, or not a number.
LatVals == {"1", "x"}
LonVals == {"0"}

\* The multipart image part: absent, or a non-empty payload.
Images == {"none", "png"}

\* The optional "range" query parameter of /search.
RangeVals == {<<>>, <<"1">>, <<"1", "km">>, <<"0", "km">>}

\* The configured word list, and the list after a configuration update.
Denylist0 == {"pills"}
DenylistUpdates == {"hello"}

\* ------------------------------------------------------------- data model

\* type Location, type Post
Location(lat, lon) == [Lat |-> lat, Lon |-> lon]

NoUrl == <<>>

Post(user, message, lat, lon, url) ==
    [User |-> user, Message |-> message, Location |-> Location(lat, lon), Url |-> url]

ZeroPost == Post("", <<>>, 0, 0, NoUrl)

NoId == 0

\* Variant: every request gets the same identifier.
NewUUID_Fixed(r) == PrePosts + 1

\* id := uuid.New(): a fresh identifier, different for every call.
NewUUID(r) == PrePosts + r

\* attrs.MediaLink of the object objectName in bucket bucketName.
MediaLink(bucketName, objectName) == <<bucketName, objectName>>

\* Variant: a string that is not a number parses to 1.
ParseFloat_One(s) ==
    CASE s = "0" -> 0
      [] OTHER -> 1

\* strconv.ParseFloat(s, 64) with the error discarded: 0 when s is no number.
ParseFloat(s) ==
    CASE s = "0" -> 0
      [] s = "1" -> 1
      [] OTHER -> 0

\* enableBigTable is the build's ENABLE_BIGTABLE: false as shipped ("currently
\* closed due to extreme high cost"), true in a build that turns the secondary
\* store on.  It never changes while the service runs.
VARIABLES
    denylist,         \* the spam filter's configured word list
    enableBigTable,   \* ENABLE_BIGTABLE of the build that is running
    bucketExists,     \* whether the bucket BUCKET_NAME exists in the asset store
    main,             \* where main() is: "start", "serving" or "panic"
    indices,          \* Elasticsearch indices: index name -> mapping
    gcs,              \* asset store: object name -> [acl, data]
    es,               \* geo index "post": document id -> Post
    bigtable,         \* secondary store: row key -> row
    req,              \* the handlePost requests, by arrival number
    search            \* the /search request served by the last step, if any

vars == <<denylist, enableBigTable, bucketExists, main, indices, gcs, es, bigtable, req, search>>

\* ------------------------------------------------------------ spam filter

\* hasFilteredWord(&message): some word of the message is on the list.
FilteredBy(message, words) == \E i \in 1..Len(message) : message[i] \in words

hasFilteredWord(message) == FilteredBy(message, denylist)

\* ------------------------------------------------------------- responses

\* net/http status codes
StatusBadRequest == 400
StatusInternalServerError == 500
StatusOK == 200

NoResp == [status |-> 0, body |-> ""]

\* http.Error(w, msg, code)
HttpError(msg, code) == [status |-> code, body |-> msg]

\* The handler returns without writing: net/http answers 200, empty body.
HttpOkEmpty == [status |-> StatusOK, body |-> ""]

\* No /search request was served by the last step.
NoSearchForm == [lat |-> "", lon |-> "", range |-> <<>>]

IdleSearch ==
    [pc |-> "idle", form |-> NoSearchForm, lat |-> 0, lon |-> 0, ran |-> <<>>,
     hits |-> <<>>, posts |-> <<>>, err |-> "",
     resp |-> [status |-> 0, body |-> "", posts |-> <<>>]]

\* ------------------------------------------------------------ write path

NoForm == [user |-> "", message |-> <<>>, lat |-> "", lon |-> "", image |-> "none"]

PostForms ==
    [user : Users, message : Messages, lat : LatVals, lon : LonVals, image : Images]

\* The locals of one handlePost call.  calls lists the backend operations
\* the call has invoked so far, in order; cancelled is whether the context
\* of the request, r.Context(), has been cancelled.
IdleReq ==
    [pc |-> "idle", form |-> NoForm, deny |-> {}, id |-> NoId, p |-> ZeroPost,
     attrs |-> NoUrl, gcsErr |-> "", esErr |-> "", btErr |-> "",
     calls |-> <<>>, resp |-> NoResp, cancelled |-> FALSE]

\* Variant: the spam check is skipped.
rejectsSpam_Never(message) == FALSE

\* handlePost, "filter spam": whether the request is rejected here.
rejectsSpam(message) == hasFilteredWord(message)

\* Variant: the image part is opened before the message is filtered.
handlePostBegin_ImageFirst(q, r, form) ==
    LET lat == ParseFloat(form.lat)
        lon == ParseFloat(form.lon)
        message == form.message
        q1 == [q EXCEPT !.form = form, !.deny = denylist]
        p == Post(form.user, form.message, lat, lon, NoUrl)
        id == NewUUID(r)
        q2 == [q1 EXCEPT !.p = p, !.id = id]
    IN  IF form.image = "none"
        THEN [q2 EXCEPT !.pc = "done",
                        !.resp = HttpError("Image is not available", StatusBadRequest)]
        ELSE IF rejectsSpam(message)
        THEN [q1 EXCEPT !.pc = "done",
                        !.resp = HttpError("Sorry, the post contains filtered words. Please edit again. ",
                                           StatusBadRequest)]
        ELSE [q2 EXCEPT !.pc = "saveToGCS"]

\* handlePost up to the call of saveToGCS: parse the form, filter spam,
\* build the post, generate the identifier, open the image part.
handlePostBegin(q, r, form) ==
    LET lat == ParseFloat(form.lat)
        lon == ParseFloat(form.lon)
        message == form.message
        q1 == [q EXCEPT !.form = form, !.deny = denylist]
    IN  IF rejectsSpam(message)
        THEN [q1 EXCEPT !.pc = "done",
                        !.resp = HttpError("Sorry, the post contains filtered words. Please edit again. ",
                                           StatusBadRequest)]
        ELSE LET p == Post(form.user, form.message, lat, lon, NoUrl)
                 id == NewUUID(r)
                 q2 == [q1 EXCEPT !.p = p, !.id = id]
             IN  IF form.image = "none"
                 THEN [q2 EXCEPT !.pc = "done",
                                 !.resp = HttpError("Image is not available", StatusBadRequest)]
                 ELSE [q2 EXCEPT !.pc = "saveToGCS"]

\* The stages of saveToGCS, in the order the code runs them.
GCSStages == <<"client", "bucket", "copy", "close", "acl", "attrs">>

GCSFailures == {GCSStages[i] : i \in 1..Len(GCSStages)}

StageIndex(stage) == CHOOSE i \in 1..Len(GCSStages) : GCSStages[i] = stage

\* Whether stage ran to completion when the call fails at fail ("" = never).
StageDone(stage, fail) == fail = "" \/ StageIndex(stage) < StageIndex(fail)

\* Variant: the object is made public as soon as it is copied, before the
\* writer is closed.
gcsAfterSave_AclBeforeClose(store, objectName, data, fail) ==
    IF ~StageDone("copy", fail) THEN store
    ELSE [n \in DOMAIN store \cup {objectName} |->
             IF n = objectName THEN [acl |-> "public", data |-> data] ELSE store[n]]

\* The asset store after saveToGCS(r, bucketName, objectName) failing at fail:
\* the object exists once wc.Close() succeeded and is public once ACL().Set did.
gcsAfterSave(store, objectName, data, fail) ==
    IF ~StageDone("close", fail) THEN store
    ELSE LET acl == IF StageDone("acl", fail) THEN "public" ELSE "private"
         IN  [n \in DOMAIN store \cup {objectName} |->
                 IF n = objectName THEN [acl |-> acl, data |-> data] ELSE store[n]]

\* What saveToGCS returns: (attrs, nil) only when no stage failed.
saveToGCS(bucketName, objectName, fail) ==
    IF fail = "" THEN [attrs |-> MediaLink(bucketName, objectName), err |-> ""]
    ELSE [attrs |-> NoUrl, err |-> fail]

\* Variant: p.Url is not set from attrs.MediaLink.
handlePostAfterGCS_NoUrl(q, ret) ==
    LET q1 == [q EXCEPT !.calls = Append(@, "saveToGCS"), !.gcsErr = ret.err,
                        !.attrs = ret.attrs]
    IN  IF ret.err # ""
        THEN [q1 EXCEPT !.pc = "done",
                        !.resp = HttpError("Failed to save image to GCS",
                                           StatusInternalServerError)]
        ELSE [q1 EXCEPT !.pc = "saveToES"]

\* Variant: the return after a saveToGCS error is missing.
handlePostAfterGCS_NoReturn(q, ret) ==
    [q EXCEPT !.calls = Append(@, "saveToGCS"), !.gcsErr = ret.err, !.attrs = ret.attrs,
              !.p.Url = ret.attrs, !.pc = "saveToES"]

\* handlePost after saveToGCS returned ret.
handlePostAfterGCS(q, ret) ==
    LET q1 == [q EXCEPT !.calls = Append(@, "saveToGCS"), !.gcsErr = ret.err,
                        !.attrs = ret.attrs]
    IN  IF ret.err # ""
        THEN [q1 EXCEPT !.pc = "done",
                        !.resp = HttpError("Failed to save image to GCS",
                                           StatusInternalServerError)]
        ELSE [q1 EXCEPT !.p.Url = ret.attrs, !.pc = "saveToES"]

\* Variant: a write to an existing id adds a document instead of replacing it.
esIndex_Duplicate(index, id, post) ==
    LET key == IF id \in DOMAIN index
               THEN 1 + CHOOSE m \in DOMAIN index : \A j \in DOMAIN index : j <= m
               ELSE id
    IN  [i \in DOMAIN index \cup {key} |-> IF i = key THEN post ELSE index[i]]

\* client.Index().Index(POST_INDEX).Type(POST_TYPE).Id(id).BodyJson(post):
\* the document id is created or overwritten.
esIndex(index, id, post) ==
    [i \in DOMAIN index \cup {id} |-> IF i = id THEN post ELSE index[i]]

ESFailures == {"client", "index"}

\* The index after saveToES(post, id) with outcome fail.
esAfterSave(index, id, post, fail) ==
    IF fail = "" THEN esIndex(index, id, post) ELSE index

\* Variant: the error of saveToES is ignored.
handlePostAfterES_IgnoreErr(q, err) ==
    LET q1 == [q EXCEPT !.calls = Append(@, "saveToES"), !.esErr = err]
    IN  IF enableBigTable
        THEN [q1 EXCEPT !.pc = "saveToBigTable"]
        ELSE [q1 EXCEPT !.pc = "done", !.resp = HttpOkEmpty]

\* handlePost after saveToES returned err.
handlePostAfterES(q, err) ==
    LET q1 == [q EXCEPT !.calls = Append(@, "saveToES"), !.esErr = err]
    IN  IF err # ""
        THEN [q1 EXCEPT !.pc = "done",
                        !.resp = HttpError("Failed to save post to ElasticSearch",
                                           StatusInternalServerError)]
        ELSE IF enableBigTable
             THEN [q1 EXCEPT !.pc = "saveToBigTable"]
             ELSE [q1 EXCEPT !.pc = "done", !.resp = HttpOkEmpty]

\* strconv.FormatFloat(f, 'f', -1, 64)
FormatFloat(f) ==
    CASE f = 0 -> "0"
      [] f = 1 -> "1"
      [] OTHER -> "?"

BTFailures == {"client", "apply"}

\* The mutation saveToBigTable applies under row key id.
btRow(p) ==
    [user |-> p.User, message |-> p.Message,
     lat |-> FormatFloat(p.Location.Lat), lon |-> FormatFloat(p.Location.Lon)]

btAfterSave(table, id, p, fail) ==
    IF fail = ""
    THEN [i \in DOMAIN table \cup {id} |-> IF i = id THEN btRow(p) ELSE table[i]]
    ELSE table

\* handlePost after saveToBigTable: the call is made in the handler itself,
\* and panic(err) unwinds the handler: net/http recovers, logs and closes the
\* connection without a response.
handlePostAfterBigTable(q, fail) ==
    LET q1 == [q EXCEPT !.calls = Append(@, "saveToBigTable"), !.btErr = fail]
    IN  IF fail # ""
        THEN [q1 EXCEPT !.pc = "panic"]
        ELSE [q1 EXCEPT !.pc = "done", !.resp = HttpOkEmpty]

HandlePostBegin(r) ==
    /\ main = "serving"
    /\ req[r].pc = "idle"
    /\ r > 1 => req[r - 1].pc # "idle"
    /\ \E form \in PostForms : req' = [req EXCEPT ![r] = handlePostBegin(@, r, form)]
    /\ search' = IdleSearch
    /\ UNCHANGED <<denylist, enableBigTable, bucketExists, main, indices, gcs, es, bigtable>>

\* The outcomes of one saveToGCS call: bucket.Attrs fails when the bucket
\* does not exist, so no later stage runs then; any stage can fail on a
\* transport error.
gcsOutcomes(exists) ==
    IF exists THEN GCSFailures \cup {""} ELSE {"client", "bucket"}

SaveToGCS(r) ==
    /\ req[r].pc = "saveToGCS"
    /\ \E fail \in gcsOutcomes(bucketExists) :
          /\ gcs' = gcsAfterSave(gcs, req[r].id, req[r].form.image, fail)
          /\ req' = [req EXCEPT ![r] =
                        handlePostAfterGCS(@, saveToGCS(BUCKET_NAME, req[r].id, fail))]
    /\ search' = IdleSearch
    /\ UNCHANGED <<denylist, enableBigTable, bucketExists, main, indices, es, bigtable>>

SaveToES(r) ==
    /\ req[r].pc = "saveToES"
    /\ \E fail \in ESFailures \cup {""} :
          /\ es' = esAfterSave(es, req[r].id, req[r].p, fail)
          /\ req' = [req EXCEPT ![r] = handlePostAfterES(@, fail)]
    /\ search' = IdleSearch
    /\ UNCHANGED <<denylist, enableBigTable, bucketExists, main, indices, gcs, bigtable>>

SaveToBigTable(r) ==
    /\ req[r].pc = "saveToBigTable"
    /\ \E fail \in BTFailures \cup {""} :
          /\ bigtable' = btAfterSave(bigtable, req[r].id, req[r].p, fail)
          /\ req' = [req EXCEPT ![r] = handlePostAfterBigTable(@, fail)]
    /\ search' = IdleSearch
    /\ UNCHANGED <<denylist, enableBigTable, bucketExists, main, indices, gcs, es>>

\* The number of entries of calls equal to name.
CallCount(calls, name) == Cardinality({i \in 1..Len(calls) : calls[i] = name})

\* saveToES(p, id) is called again for a post whose index write was already
\* attempted, with the same post and the same identifier (a retry of the
\* write by its caller).
RetrySaveToES(r) ==
    /\ req[r].pc = "done"
    /\ CallCount(req[r].calls, "saveToES") \in 1..MaxRetry
    /\ \E fail \in ESFailures \cup {""} :
          es' = esAfterSave(es, req[r].id, req[r].p, fail)
    /\ req' = [req EXCEPT ![r].calls = Append(@, "saveToES")]
    /\ search' = IdleSearch
    /\ UNCHANGED <<denylist, enableBigTable, bucketExists, main, indices, gcs, bigtable>>

\* The client of request r goes away while handlePost is in a backend call:
\* net/http cancels r.Context().  The backend calls run under
\* context.Background(), so nothing in the handler observes it.
Cancel(r) ==
    /\ req[r].pc \in {"saveToGCS", "saveToES", "saveToBigTable"}
    /\ ~req[r].cancelled
    /\ req' = [req EXCEPT ![r].cancelled = TRUE]
    /\ search' = IdleSearch
    /\ UNCHANGED <<denylist, enableBigTable, bucketExists, main, indices, gcs, es, bigtable>>

\* The operator reconfigures the word list of the filter.
UpdateDenylist ==
    /\ \E w \in DenylistUpdates \ denylist : denylist' = denylist \cup {w}
    /\ search' = IdleSearch
    /\ UNCHANGED <<enableBigTable, bucketExists, main, indices, gcs, es, bigtable, req>>

\* ------------------------------------------------------------- read path

SearchForms == [lat : LatVals, lon : LonVals, range : RangeVals]

\* handleSearch: ran := DISTANCE; if val != "" { ran = val + "km" }
searchRange(val) == IF val # <<>> THEN val \o <<"km">> ELSE DISTANCE

\* The number a token spells, as Elasticsearch parses a distance.
Numeral(tok) ==
    CASE tok = "0" -> 0
      [] tok = "1" -> 1
      [] tok = "200" -> 200
      [] OTHER -> -1

\* Elasticsearch accepts a distance string of a number followed by one unit.
ValidDistance(ran) == Len(ran) = 2 /\ ran[2] = "km" /\ Numeral(ran[1]) > 0

DistanceKm(ran) == Numeral(ran[1])

Abs(x) == IF x < 0 THEN -x ELSE x

\* Distance in km between two locations (degrees on a small grid).
GeoDistanceKm(a, b) == KM_PER_DEGREE * (Abs(a.Lat - b.Lat) + Abs(a.Lon - b.Lon))

Min(a, b) == IF a < b THEN a ELSE b

\* The ids of a set in the order the backend lists them.
RECURSIVE InOrder(_)
InOrder(ids) ==
    IF ids = {} THEN <<>>
    ELSE LET m == CHOOSE i \in ids : \A j \in ids : i <= j
         IN  <<m>> \o InOrder(ids \ {m})

\* The documents of the index within ran of (lat, lon).
GeoDistanceMatches(index, lat, lon, ran) ==
    {id \in DOMAIN index :
        GeoDistanceKm(index[id].Location, Location(lat, lon)) <= DistanceKm(ran)}

\* The results client.Search().Index(POST_INDEX).Query(query).Do(ctx) can
\* give: an error, or one page of hits, any ES_DEFAULT_SIZE of the matches
\* when there are more (the query scores every match alike).
esSearch(index, lat, lon, ran, fail) ==
    IF fail # "" THEN {[hits |-> <<>>, err |-> fail]}
    ELSE IF ~ValidDistance(ran) THEN {[hits |-> <<>>, err |-> "search"]}
    ELSE LET m == GeoDistanceMatches(index, lat, lon, ran)
             n == Min(Cardinality(m), ES_DEFAULT_SIZE)
             hitsOf(page) == LET ids == InOrder(page)
                             IN  [i \in 1..n |-> [Id |-> ids[i], Source |-> index[ids[i]]]]
         IN  {[hits |-> hitsOf(page), err |-> ""] :
                 page \in {pg \in SUBSET m : Cardinality(pg) = n}}

\* Variant: the hits are not filtered.
keepsHit_All(p) == TRUE

\* readFromES, the loop over searchResult.Each: keep the unfiltered hits.
keepsHit(p) == ~hasFilteredWord(p.Message)

RECURSIVE filterHits(_)
filterHits(hits) ==
    IF hits = <<>> THEN <<>>
    ELSE (IF keepsHit(Head(hits).Source) THEN <<Head(hits).Source>> ELSE <<>>)
         \o filterHits(Tail(hits))

\* Variant: the posts are returned in the reverse of the backend's order.
readFromES_Reversed(result) ==
    IF result.err # "" THEN [posts |-> <<>>, err |-> result.err]
    ELSE LET kept == filterHits(result.hits)
         IN  [posts |-> [i \in 1..Len(kept) |-> kept[Len(kept) + 1 - i]], err |-> ""]

\* Variant: an empty hit list is reported as an error.
readFromES_ErrOnEmpty(result) ==
    IF result.err # "" THEN [posts |-> <<>>, err |-> result.err]
    ELSE IF filterHits(result.hits) = <<>> THEN [posts |-> <<>>, err |-> "not found"]
    ELSE [posts |-> filterHits(result.hits), err |-> ""]

\* readFromES(lat, lon, ran) given the backend's result: (posts, err).
readFromES(result) ==
    IF result.err # "" THEN [posts |-> <<>>, err |-> result.err]
    ELSE [posts |-> filterHits(result.hits), err |-> ""]

\* json.Marshal(posts): a nil slice encodes as null, not as [].
Marshal(posts) == IF posts = <<>> THEN "null" ELSE "[...]"

\* handleSearch after readFromES returned ret.
handleSearchResponse(ret) ==
    IF ret.err # ""
    THEN [status |-> StatusInternalServerError,
          body |-> "Failed to read post from ElasticSearch", posts |-> <<>>]
    ELSE [status |-> StatusOK, body |-> Marshal(ret.posts), posts |-> ret.posts]

SearchFailures == {"client", "search"}

\* The handlePost requests already answered with success.
Acked == {r \in Reqs : req[r].pc = "done" /\ req[r].resp.status = StatusOK}

\* One /search request, served in one step: the only shared state it reads
\* is the index, in the single search call.
HandleSearch ==
    /\ main = "serving"
    /\ search.pc = "idle"
    /\ \E form \in SearchForms, fail \in SearchFailures \cup {""} :
          LET lat == ParseFloat(form.lat)
              lon == ParseFloat(form.lon)
              ran == searchRange(form.range)
          IN  \E result \in esSearch(es, lat, lon, ran, fail) :
                 LET ret == readFromES(result)
                 IN  search' = [pc |-> "done", form |-> form, lat |-> lat, lon |-> lon,
                                ran |-> ran, hits |-> result.hits,
                                posts |-> ret.posts, err |-> ret.err,
                                resp |-> handleSearchResponse(ret)]
    /\ UNCHANGED <<denylist, enableBigTable, bucketExists, main, indices,
                   gcs, es, bigtable, req>>

\* ------------------------------------------------------------ the system

\* The mapping of createIndexIfNotExist for POST_INDEX, and the mapping of
\* an index created without a body.
GeoPointMapping == [location |-> "geo_point"]

NoMapping == [location |-> "dynamic"]

\* Both indices as createIndexIfNotExist leaves them.
Provisioned ==
    [n \in {POST_INDEX, USER_INDEX} |->
        IF n = POST_INDEX THEN GeoPointMapping ELSE NoMapping]

\* The backend calls of createIndexIfNotExist, in the order the code makes
\* them.
BootStages == <<"client", "existsPost", "createPost", "existsUser", "createUser">>

BootStageIndex(stage) == CHOOSE i \in 1..Len(BootStages) : BootStages[i] = stage

\* Whether stage was passed when the function panics at fail ("" = never).
BootStageDone(stage, fail) == fail = "" \/ BootStageIndex(stage) < BootStageIndex(fail)

\* The calls createIndexIfNotExist makes, hence can panic at, given the
\* indices idx: CreateIndex is called only for an index that does not exist.
bootOutcomes(idx) ==
    {"", "client", "existsPost", "existsUser"}
        \cup (IF POST_INDEX \in DOMAIN idx THEN {} ELSE {"createPost"})
        \cup (IF USER_INDEX \in DOMAIN idx THEN {} ELSE {"createUser"})

\* client.CreateIndex(name).Body(mapping)
createIndex(idx, name, mapping) ==
    [n \in DOMAIN idx \cup {name} |-> IF n = name THEN mapping ELSE idx[n]]

\* Variant: POST_INDEX is created without the mapping body.
createIndexIfNotExist_NoMapping(idx, fail) ==
    LET withPost == IF POST_INDEX \notin DOMAIN idx /\ BootStageDone("createPost", fail)
                    THEN createIndex(idx, POST_INDEX, NoMapping)
                    ELSE idx
        withUser == IF USER_INDEX \notin DOMAIN idx /\ BootStageDone("createUser", fail)
                    THEN createIndex(withPost, USER_INDEX, NoMapping)
                    ELSE withPost
    IN  [indices |-> withUser, panic |-> fail # ""]

\* createIndexIfNotExist() panicking at fail: the indices it leaves and
\* whether it panicked.
createIndexIfNotExist(idx, fail) ==
    LET withPost == IF POST_INDEX \notin DOMAIN idx /\ BootStageDone("createPost", fail)
                    THEN createIndex(idx, POST_INDEX, GeoPointMapping)
                    ELSE idx
        withUser == IF USER_INDEX \notin DOMAIN idx /\ BootStageDone("createUser", fail)
                    THEN createIndex(withPost, USER_INDEX, NoMapping)
                    ELSE withPost
    IN  [indices |-> withUser, panic |-> fail # ""]

\* main() calls createIndexIfNotExist() and, when it returns, goes on to
\* ListenAndServe; a panic ends the process.
CreateIndexIfNotExist ==
    /\ main = "start"
    /\ \E fail \in bootOutcomes(indices) :
          LET ret == createIndexIfNotExist(indices, fail)
          IN  /\ indices' = ret.indices
              /\ main' = IF ret.panic THEN "panic" ELSE "serving"
    /\ UNCHANGED <<denylist, enableBigTable, bucketExists, gcs, es, bigtable,
                   req, search>>

\* The process that ended in a panic is started again.
Restart ==
    /\ main = "panic"
    /\ main' = "start"
    /\ UNCHANGED <<denylist, enableBigTable, bucketExists, indices, gcs, es,
                   bigtable, req, search>>

\* A post written by an earlier run of the service.
PrePost(i) == Post("carol", <<"good", "day">>, 0, 0, MediaLink(BUCKET_NAME, i))

\* The state when the service starts to serve: the index exists
\* (createIndexIfNotExist), and the stores are empty or hold the posts of
\* earlier runs, each with its asset.
Init ==
    /\ denylist = Denylist0
    /\ enableBigTable \in BOOLEAN
    /\ main = "serving"
    /\ indices = Provisioned
    /\ \E n \in {0, PrePosts} :
          /\ es = [i \in 1..n |-> PrePost(i)]
          /\ gcs = [i \in 1..n |-> [acl |-> "public", data |-> "png"]]
          /\ bucketExists \in (IF n = 0 THEN BOOLEAN ELSE {TRUE})
    /\ bigtable = <<>>
    /\ req = [r \in Reqs |-> IdleReq]
    /\ search = IdleSearch

Next ==
    \/ \E r \in Reqs : HandlePostBegin(r)
    \/ \E r \in Reqs : SaveToGCS(r)
    \/ \E r \in Reqs : SaveToES(r)
    \/ \E r \in Reqs : SaveToBigTable(r)
    \/ UpdateDenylist
    \/ HandleSearch

Spec == Init /\ [][Next]_vars

\* The write path alone: the service while no /search request arrives.
NextIngest ==
    \/ \E r \in Reqs : HandlePostBegin(r)
    \/ \E r \in Reqs : SaveToGCS(r)
    \/ \E r \in Reqs : SaveToES(r)
    \/ \E r \in Reqs : SaveToBigTable(r)
    \/ UpdateDenylist

SpecIngest == Init /\ [][NextIngest]_vars

\* The write path with index writes repeated by the caller.
NextRetry ==
    \/ \E r \in Reqs : HandlePostBegin(r)
    \/ \E r \in Reqs : SaveToGCS(r)
    \/ \E r \in Reqs : SaveToES(r)
    \/ \E r \in Reqs : SaveToBigTable(r)
    \/ \E r \in Reqs : RetrySaveToES(r)
    \/ UpdateDenylist

SpecRetry == Init /\ [][NextRetry]_vars

\* The process from its start, as shipped (ENABLE_BIGTABLE = false): the
\* indices may not exist yet, exist in part after a start that panicked, or
\* exist with the posts of an earlier run.
InitBoot ==
    /\ denylist = Denylist0
    /\ enableBigTable = FALSE
    /\ bucketExists = TRUE
    /\ main = "start"
    /\ \E names \in {{}, {POST_INDEX}, {POST_INDEX, USER_INDEX}} :
          /\ indices = [n \in names |-> Provisioned[n]]
          /\ \E n \in (IF names = {} THEN {0} ELSE {0, PrePosts}) :
                /\ es = [i \in 1..n |-> PrePost(i)]
                /\ gcs = [i \in 1..n |-> [acl |-> "public", data |-> "png"]]
    /\ bigtable = <<>>
    /\ req = [r \in Reqs |-> IdleReq]
    /\ search = IdleSearch

NextBoot ==
    \/ CreateIndexIfNotExist
    \/ Restart
    \/ \E r \in Reqs : HandlePostBegin(r)
    \/ \E r \in Reqs : SaveToGCS(r)
    \/ \E r \in Reqs : SaveToES(r)
    \/ HandleSearch

SpecBoot == InitBoot /\ [][NextBoot]_vars

\* The write path with requests cancelled by their clients.
NextCancel ==
    \/ \E r \in Reqs : HandlePostBegin(r)
    \/ \E r \in Reqs : SaveToGCS(r)
    \/ \E r \in Reqs : SaveToES(r)
    \/ \E r \in Reqs : SaveToBigTable(r)
    \/ \E r \in Reqs : Cancel(r)
    \/ UpdateDenylist

SpecCancel == Init /\ [][NextCancel]_vars

\* ---------------------------------------------------------------- claims

Started(r) == req[r].pc # "idle"

Finished(r) == req[r].pc \in {"done", "panic"}

\* The post request r built from its form, with the url url.
Submitted(r, url) ==
    Post(req[r].form.user, req[r].form.message,
         ParseFloat(req[r].form.lat), ParseFloat(req[r].form.lon), url)

SearchOk == search.pc = "done" /\ search.err = ""

\* The number of posts of a result equal to p.
Occurrences(posts, p) == Cardinality({i \in 1..Len(posts) : posts[i] = p})

\* C1: every document of the geo index has an asset under the same
\* identifier in the asset store and a non-empty url equal to the reference
\* the asset store returned for it; a request calls saveToES only after its
\* saveToGCS returned success.
C1_AssetBeforeIndex ==
    /\ \A id \in DOMAIN es :
          /\ id \in DOMAIN gcs
          /\ es[id].Url # NoUrl
          /\ es[id].Url = MediaLink(BUCKET_NAME, id)
    /\ \A r \in Reqs :
          /\ req[r].id \in DOMAIN es => es[req[r].id].Url = req[r].attrs
          /\ (\E i \in 1..Len(req[r].calls) : req[r].calls[i] = "saveToES") =>
                /\ req[r].calls[1] = "saveToGCS"
                /\ req[r].calls[2] = "saveToES"
                /\ req[r].gcsErr = ""
                /\ req[r].attrs # NoUrl

\* Two interleaved requests: one indexed its post, the other lost its asset write.
C1_Witness ==
    \E r1, r2 \in Reqs :
        /\ req[r1].id \in DOMAIN es
        /\ req[r2].gcsErr # ""
        /\ req[r2].id \in DOMAIN gcs

\* C2: a request whose message the spam filter matches (as configured when
\* the request is handled) is rejected with 400 before any store is called:
\* it has made no backend call and no identifier exists under which anything
\* of it could be stored.
C2_SpamRejectedBeforeStores ==
    \A r \in Reqs :
        (Started(r) /\ FilteredBy(req[r].form.message, req[r].deny)) =>
            /\ req[r].pc = "done"
            /\ req[r].resp.status = StatusBadRequest
            /\ req[r].calls = <<>>
            /\ req[r].id = NoId
            /\ \A id \in DOMAIN es : es[id] # Submitted(r, es[id].Url)
                                     \/ \E o \in Reqs \ {r} : req[o].id = id

\* A message accepted under the first word list is rejected under the updated
\* one, while another request has stored its post.
C2_Witness ==
    \E r1, r2 \in Reqs :
        /\ req[r1].pc = "done"
        /\ FilteredBy(req[r1].form.message, req[r1].deny)
        /\ ~FilteredBy(req[r1].form.message, Denylist0)
        /\ req[r1].form.image = "png"
        /\ req[r2].id \in DOMAIN es

\* C3: when saveToGCS fails at any stage, the request answers 500, makes no
\* further call, and no document or row of its identifier is ever written.
C3_AssetFailureWritesNoIndex ==
    \A r \in Reqs :
        req[r].gcsErr # "" =>
            /\ req[r].pc = "done"
            /\ req[r].resp = HttpError("Failed to save image to GCS", StatusInternalServerError)
            /\ req[r].calls = <<"saveToGCS">>
            /\ req[r].id \notin DOMAIN es
            /\ req[r].id \notin DOMAIN bigtable

\* One request failed before the object existed, one after it was written.
C3_Witness ==
    \E r1, r2 \in Reqs :
        /\ req[r1].gcsErr = "bucket"
        /\ req[r2].gcsErr = "attrs"
        /\ req[r2].id \in DOMAIN gcs

\* C4: when saveToES fails after the asset was stored, the request stops and
\* answers 500 "Failed to save post to ElasticSearch"; the asset stays in the
\* asset store, nothing is mirrored to the secondary store; a request that met
\* a failure made no call after the failing one.
C4_IndexFailureStops ==
    \A r \in Reqs :
        /\ req[r].esErr # "" =>
              /\ req[r].pc = "done"
              /\ req[r].resp = HttpError("Failed to save post to ElasticSearch",
                                         StatusInternalServerError)
              /\ req[r].calls = <<"saveToGCS", "saveToES">>
              /\ req[r].id \in DOMAIN gcs
              /\ gcs[req[r].id] = [acl |-> "public", data |-> req[r].form.image]
              /\ req[r].id \notin DOMAIN es
              /\ req[r].id \notin DOMAIN bigtable
        /\ (req[r].gcsErr # "" \/ req[r].esErr # "" \/ req[r].btErr # "") => Finished(r)

\* The index write failed in a build that mirrors to the secondary store.
C4_Witness ==
    \E r \in Reqs : req[r].esErr = "index" /\ enableBigTable /\ req[r].pc = "done"

\* C5: a search that succeeds at the location of a post whose ingestion was
\* answered with success returns that post (posts the filter matches at the
\* time of the search aside: they are C7's), however many posts are in range.
C5_ReadAfterWrite ==
    SearchOk =>
        \A r \in Acked :
            (/\ req[r].p.Location = Location(search.lat, search.lon)
             /\ ~hasFilteredWord(req[r].p.Message)) =>
                \E i \in 1..Len(search.posts) : search.posts[i] = req[r].p

\* C6: a post ingested with a non-filtered message and an image, searched at
\* its own coordinates, appears exactly once in the result, with the user,
\* message and location submitted and the url of its stored asset.
C6_RoundTrip ==
    SearchOk =>
        \A r \in Acked :
            (/\ ParseFloat(req[r].form.lat) = search.lat
             /\ ParseFloat(req[r].form.lon) = search.lon
             /\ ~hasFilteredWord(req[r].form.message)) =>
                /\ req[r].attrs # NoUrl
                /\ req[r].id \in DOMAIN gcs
                /\ Occurrences(search.posts, Submitted(r, req[r].attrs)) = 1

\* C7: no search result contains a post whose message the filter matches as
\* configured at the time of the search, and every hit, dropped or not, is
\* still the stored document.
C7_SearchExcludesFiltered ==
    search.pc = "done" =>
        /\ \A i \in 1..Len(search.posts) : ~FilteredBy(search.posts[i].Message, denylist)
        /\ \A i \in 1..Len(search.hits) :
              /\ search.hits[i].Id \in DOMAIN es
              /\ es[search.hits[i].Id] = search.hits[i].Source
              /\ FilteredBy(search.hits[i].Source.Message, denylist) =>
                    Occurrences(search.posts, search.hits[i].Source) = 0

\* A post accepted at ingestion is a hit of a search made after the word list
\* was updated to match it, and is absent from the result.
C7_Witness ==
    /\ SearchOk
    /\ \E r \in Acked, i \in 1..Len(search.hits) :
          /\ ~FilteredBy(req[r].form.message, req[r].deny)
          /\ FilteredBy(req[r].form.message, denylist)
          /\ search.hits[i].Id = req[r].id
          /\ es[req[r].id] = req[r].p
          /\ Occurrences(search.posts, req[r].p) = 0

\* C8: with the secondary store enabled, a request whose asset and index
\* writes succeeded completes with 200 whatever the mirror write does.
C8_MirrorFailureUnobservable ==
    \A r \in Reqs :
        (enableBigTable /\ Len(req[r].calls) >= 2 /\ req[r].esErr = "" /\ Finished(r)) =>
            req[r].resp = HttpOkEmpty

\* C9: two requests that both succeeded have distinct identifiers, each
\* one's document carries its own fields and its own asset url, and a search
\* that succeeds at the location of either returns it.
C9_ConcurrentIngestIndependent ==
    \A r1, r2 \in Acked :
        r1 # r2 =>
            /\ req[r1].id # req[r2].id
            /\ req[r1].id \in DOMAIN es
            /\ es[req[r1].id] = Submitted(r1, MediaLink(BUCKET_NAME, req[r1].id))
            /\ es[req[r1].id].Url # es[req[r2].id].Url
            /\ (/\ SearchOk
                /\ req[r1].p.Location = Location(search.lat, search.lon)
                /\ ~hasFilteredWord(req[r1].p.Message)) =>
                   \E i \in 1..Len(search.hits) : search.hits[i].Id = req[r1].id

\* C10: a search with no backend failure answers 200, with an empty
\* collection when no document matches or every hit is filtered; it answers
\* 500 only when the client could not be created or the search call failed.
C10_EmptyResultIsSuccess ==
    search.pc = "done" =>
        /\ search.resp.status \in {StatusOK, StatusInternalServerError}
        /\ search.resp.status = StatusInternalServerError <=> search.err \in SearchFailures
        /\ search.err \notin SearchFailures =>
              /\ search.err = ""
              /\ search.resp.status = StatusOK
              /\ search.resp.posts = search.posts
              /\ (\A i \in 1..Len(search.hits) :
                     FilteredBy(search.hits[i].Source.Message, denylist)) =>
                    search.posts = <<>>
        /\ (search.err = "search" /\ ValidDistance(search.ran)) => search.hits = <<>>

\* A search whose every hit is dropped by the filter answers 200 with no post.
C10_Witness ==
    /\ SearchOk
    /\ search.hits # <<>>
    /\ search.posts = <<>>
    /\ search.resp.status = StatusOK

\* C11: a write of a post to the geo index under an identifier that already
\* holds it leaves the index as it was: one document for the identifier,
\* no duplicate.
C11_IndexWriteIdempotent ==
    [][\A r \in Reqs :
          (/\ req[r].id \in DOMAIN es
           /\ es[req[r].id] = req[r].p
           /\ Len(req'[r].calls) > Len(req[r].calls)) =>
              /\ es' = es
              /\ Cardinality({i \in DOMAIN es' : es'[i] = req[r].p}) = 1]_vars

\* The index write of a stored post was repeated.
C11_Witness ==
    \E r \in Reqs :
        /\ CallCount(req[r].calls, "saveToES") = 2
        /\ req[r].esErr = ""
        /\ req[r].id \in DOMAIN es

\* C12: every request ends in one response whose status follows the
\* mapping: a filtered message or a missing image gives 400, a failed
\* asset, index or query call gives 500, a post written to the index gives
\* 200 with an empty body, and a search that succeeded gives 200 with the
\* encoded posts.
C12_OneResponsePerRequest ==
    /\ \A r \in Reqs : Finished(r) =>
          LET q == req[r]
          IN  /\ q.resp # NoResp
              /\ FilteredBy(q.form.message, q.deny) =>
                     q.resp.status = StatusBadRequest
              /\ (~FilteredBy(q.form.message, q.deny) /\ q.form.image = "none") =>
                     q.resp.status = StatusBadRequest
              /\ (q.gcsErr # "" \/ q.esErr # "") =>
                     q.resp.status = StatusInternalServerError
              /\ ("saveToES" \in {q.calls[i] : i \in 1..Len(q.calls)} /\ q.esErr = "") =>
                     q.resp = HttpOkEmpty
    /\ search.pc = "done" =>
          /\ search.resp.status # 0
          /\ search.err # "" => search.resp.status = StatusInternalServerError
          /\ search.err = "" =>
                 /\ search.resp.status = StatusOK
                 /\ search.resp.posts = search.posts
                 /\ search.resp.body \in {"null", "[...]"}

\* C13: a search with an empty radius queries with the default radius
\* 200km; a search with a radius given by the caller queries with that
\* distance in kilometres, one number and one unit, so that the caller's
\* "0km" is queried as "0km".
C13_RadiusAsSpecified ==
    search.pc = "done" =>
        LET val == search.form.range
        IN  /\ val = <<>> => search.ran = DISTANCE
            /\ val # <<>> =>
                  /\ Len(search.ran) = 2
                  /\ search.ran[2] = "km"
                  /\ search.ran[1] = val[1]

\* C14: saveToGCS runs its stages in one order and stops at the first that
\* fails.  A missing bucket is an error and leaves no object; the object
\* exists only once it was copied and closed, and is public only after
\* that; the reference is returned exactly when every stage succeeded; a
\* failed call is answered with the error and is not repeated.
C14_AssetPutStagesInOrder ==
    \A r \in Reqs : CallCount(req[r].calls, "saveToGCS") > 0 =>
        LET q == req[r]
            e == q.gcsErr
            stored == q.id \in DOMAIN gcs
        IN  /\ CallCount(q.calls, "saveToGCS") = 1
            /\ ~bucketExists => (e \in {"client", "bucket"} /\ gcs = <<>>)
            /\ e \in {"client", "bucket", "copy", "close"} => ~stored
            /\ e \in {"acl", "attrs", ""} =>
                  (stored /\ gcs[q.id].data = q.form.image)
            /\ e = "acl" => gcs[q.id].acl = "private"
            /\ e \in {"attrs", ""} => gcs[q.id].acl = "public"
            /\ (q.attrs # NoUrl) <=> (e = "")
            /\ e = "" => q.attrs = MediaLink(BUCKET_NAME, q.id)
            /\ e # "" =>
                  /\ q.pc = "done"
                  /\ q.resp = HttpError("Failed to save image to GCS",
                                        StatusInternalServerError)

\* A call stopped at the ACL stage: the object is written and private.
C14_Witness ==
    \E r \in Reqs :
        /\ req[r].gcsErr = "acl"
        /\ req[r].id \in DOMAIN gcs
        /\ gcs[req[r].id].acl = "private"
        /\ req[r].attrs = NoUrl

C16_ProvisioningIdempotent ==
    [][/\ (\E r \in Reqs : req'[r].pc # "idle") \/ search'.pc = "done" =>
              /\ main' = "serving"
              /\ POST_INDEX \in DOMAIN indices'
              /\ indices'[POST_INDEX] = GeoPointMapping
       /\ (main = "start" /\ main' # "start") =>
              /\ es' = es
              /\ \A n \in DOMAIN indices :
                    n \in DOMAIN indices' /\ indices'[n] = indices[n]
              /\ POST_INDEX \in DOMAIN indices' =>
                    indices'[POST_INDEX] = GeoPointMapping
              /\ DOMAIN indices = {POST_INDEX, USER_INDEX} => indices' = indices
              /\ main' = "serving" => DOMAIN indices' = {POST_INDEX, USER_INDEX}]_vars

\* The service was started over the posts of an earlier run, kept them and
\* has taken a request.
C16_Witness ==
    /\ main = "serving"
    /\ \A i \in 1..PrePosts : i \in DOMAIN es /\ es[i] = PrePost(i)
    /\ \E r \in Reqs : Started(r)

\* C17: no step removes or changes a document of the geo index or an object
\* of the asset store: every step leaves each of them as it was.
C17_StoresOnlyGrow ==
    [][/\ \A i \in DOMAIN es : i \in DOMAIN es' /\ es'[i] = es[i]
       /\ \A n \in DOMAIN gcs : n \in DOMAIN gcs' /\ gcs'[n] = gcs[n]]_vars

\* Two posts were stored after the posts of an earlier run, and a search
\* was served after them.
C17_Witness ==
    /\ Cardinality(Acked) >= 2
    /\ Cardinality(DOMAIN es) >= PrePosts + 2
    /\ search.pc = "done"

C19_CancelStopsWrites ==
    [][\A r \in Reqs : req[r].cancelled =>
          /\ req[r].id \in DOMAIN gcs' => req[r].id \in DOMAIN gcs
          /\ req[r].id \in DOMAIN es' => req[r].id \in DOMAIN es]_vars

\* C20: a post request without an image part ends at once, with no backend
\* call and nothing stored: when its message is filtered it is answered 400
\* as spam before an identifier is generated, otherwise it is answered 400
\* "Image is not available" after the identifier was generated.
C20_MissingImageRejected ==
    \A r \in Reqs : (Started(r) /\ req[r].form.image = "none") =>
        LET q == req[r]
        IN  /\ q.pc = "done"
            /\ q.calls = <<>>
            /\ q.resp.status = StatusBadRequest
            /\ IF FilteredBy(q.form.message, q.deny)
               THEN /\ q.resp.body # "Image is not available"
                    /\ q.id = NoId
               ELSE /\ q.resp = HttpError("Image is not available", StatusBadRequest)
                    /\ q.id # NoId
                    /\ q.id \notin DOMAIN gcs
                    /\ q.id \notin DOMAIN es
                    /\ q.id \notin DOMAIN bigtable

\* A request with an unfiltered message and no image was rejected after its
\* identifier was generated.
C20_Witness ==
    \E r \in Reqs :
        /\ req[r].form.image = "none"
        /\ ~FilteredBy(req[r].form.message, req[r].deny)
        /\ req[r].id # NoId
        /\ req[r].resp = HttpError("Image is not available", StatusBadRequest)

====
